---------------------------- MODULE Spec2Model ----------------------------
(***************************************************************************)
(* Model of okx_volume_profiles: the process-wide DataBuffer (two bounded  *)
(* deques behind one lock), the refresh callbacks that read it and compute *)
(* volume profiles and the BTC/ETH volume share, the feed client that      *)
(* hands decoded messages to Dashboard.handle_data, the raw-message        *)
(* archive, and the start and shutdown of the process and its collector.   *)
(*                                                                         *)
(* Strings that the code inspects character by character (instrument ids)  *)
(* are sequences of one-character strings.  A trade record keeps the       *)
(* fields the code computes with (price, volume, trade_id, inst_id); the   *)
(* timestamp and side fields are carried through untouched by the code and *)
(* are kept only in the records handle_data builds.  Prices and volumes   *)
(* are integer-valued, and prices are chosen so that every intermediate    *)
(* of the profile computation is                                           *)
(* a dyadic rational: on these inputs the exact arithmetic below is what   *)
(* Python's binary64 floats compute.  The share computation divides, so it *)
(* is modelled with correctly rounded binary64 operations (see Float).     *)
(***************************************************************************)
EXTENDS Integers, Sequences, FiniteSets, TLC

VARIABLES
    btc_trades,     \* DataBuffer.btc_trades: deque(maxlen), oldest first
    eth_trades,     \* DataBuffer.eth_trades
    lock,           \* DataBuffer.lock: None or the thread holding it
    add_count,      \* DataBuffer.add_count
    ret,            \* the object the last get_*_trades call returned
    r_group,        \* ... which getter it was ("BTC" / "ETH" / None)
    r_limit,        \* ... its limit argument
    r_at,           \* history: number of add_trade calls made before that read
    r_snapshot,     \* history: what the returned sequence held when returned
    calls,          \* history: every add_trade call that has appended or dropped
                    \*          its record so far, <<inst_id, record>>
    c_pc,           \* collector thread: where it is inside add_trade
    c_arg,          \* collector thread: the arguments of the add_trade call in progress
    rd,             \* refresh callback threads: the get_*_trades call each is in
    fig,            \* what the last chart callback computed and returned
    ws,             \* OKXWebSocketClient: the connection ("none", "open", "closed")
    received,       \* history: every raw message the read loop has taken
    delivered,      \* history: every message passed to data_handler
    archive,        \* the files under data/raw: (folder, file name) -> lines
    printed,        \* what the feed client has printed
    proc            \* the process: main thread, shutdown flags, collector thread

feedVars == <<ws, received, delivered, archive, printed, proc>>

vars == <<btc_trades, eth_trades, lock, add_count, ret, r_group, r_limit,
          r_at, r_snapshot, calls, c_pc, c_arg, rd, fig, feedVars>>

None == "None"

---------------------------------------------------------------------------
(* Bounds of the model.                                                    *)

\* deque(maxlen=1000) scaled down: the capacity of each group's buffer.
Capacity == 4
\* Number of add_trade calls explored in the buffer specification: enough
\* for one group to overflow its buffer.
MaxAdds == Capacity + 1
\* get_*_trades(200) of the volume-profile callbacks, scaled down.
ProfileLimit == 3
\* get_*_trades(100) of the dominance callback, scaled down.
DominanceLimit == 2
\* Number of add_trade calls explored in the lock-step specification.
MaxConcAdds == 3
\* Number of add_trade calls explored in the volume-profile specification.
MaxProfileAdds == 3
\* Number of add_trade calls explored in the dominance specification.
MaxDominanceAdds == 3
\* Number of raw messages the read loop takes in the feed specification.
MaxMsgs == 2
\* Number of signals delivered and of raw messages taken in the shutdown
\* specification.
MaxSignals == 2
MaxLifeMsgs == 1

\* The threads that serve refresh callbacks concurrently.
Readers == {"cb1", "cb2"}
Collector == "collector"

---------------------------------------------------------------------------
(* Instrument ids and str.upper() / the `in` operator on strings.          *)

BTC == <<"B", "T", "C">>
ETH == <<"E", "T", "H">>

BTC_USDT == <<"B", "T", "C", "-", "U", "S", "D", "T">>
ETH_USDT == <<"E", "T", "H", "-", "U", "S", "D", "T">>
eth_usdt == <<"e", "t", "h", "-", "u", "s", "d", "t">>
ETH_BTC  == <<"E", "T", "H", "-", "B", "T", "C">>
XRP_USDT == <<"X", "R", "P", "-", "U", "S", "D", "T">>

InstIds == {BTC_USDT, eth_usdt, ETH_BTC, XRP_USDT}

UpperChar(c) ==
    CASE c = "b" -> "B" [] c = "t" -> "T" [] c = "c" -> "C"
      [] c = "e" -> "E" [] c = "h" -> "H" [] c = "u" -> "U"
      [] c = "s" -> "S" [] c = "d" -> "D" [] OTHER -> c

\* str.upper()
upper(s) == [i \in 1..Len(s) |-> UpperChar(s[i])]

\* sub in s
str_in(sub, s) ==
    \E i \in 1..(Len(s) - Len(sub) + 1) : SubSeq(s, i, i + Len(sub) - 1) = sub

---------------------------------------------------------------------------
(* collections.deque(maxlen=Capacity) and list slicing.                    *)

\* (mutant) a plain list: nothing is ever dropped.
deque_append_unbounded(d, x) == Append(d, x)

\* deque.append on a bounded deque: a full deque drops its leftmost item.
deque_append(d, x) ==
    IF Len(d) >= Capacity THEN Append(Tail(d), x) ELSE Append(d, x)

\* Python's s[start:] for any integer start.
py_slice_from(s, start) ==
    LET n == Len(s)
        lo == IF start < 0 THEN (IF start + n < 0 THEN 0 ELSE start + n)
              ELSE (IF start > n THEN n ELSE start)
    IN SubSeq(s, lo + 1, n)

\* list(d): a new list object holding the items of d.
list_copy(d) == [obj |-> "list", items |-> d]

\* l[-limit:]: a new list object.
slice_last(l, limit) == [obj |-> "list", items |-> py_slice_from(l.items, 0 - limit)]

\* What a caller holding the returned reference reads from it now.
Contents(o) ==
    CASE o.obj = "list" -> o.items
      [] o.obj = "btc_trades" -> btc_trades
      [] o.obj = "eth_trades" -> eth_trades

---------------------------------------------------------------------------
(* Float: Python floats (IEEE 754 binary64, round to nearest, ties to      *)
(* even) on the non-negative finite values the share computation meets.    *)
(* A value is m * 2^e with m a bit sequence, most significant bit first,   *)
(* kept odd (no leading or trailing zero bit), so equal values are equal   *)
(* records; zero is the empty bit sequence.  Exponent range is not         *)
(* modelled: the values here stay far from overflow and underflow.         *)

\* Significand width of binary64.
Precision == 53

Zero == [m |-> <<>>, e |-> 0]

RECURSIVE BitsOf(_)
\* The binary digits of a natural number.
BitsOf(n) == IF n = 0 THEN <<>> ELSE Append(BitsOf(n \div 2), n % 2)

\* m without its leading zero bits.
StripLead(m) ==
    IF \A i \in 1..Len(m) : m[i] = 0 THEN <<>>
    ELSE LET first == CHOOSE i \in 1..Len(m) :
                          m[i] = 1 /\ \A j \in 1..(i - 1) : m[j] = 0
         IN SubSeq(m, first, Len(m))

\* The canonical form of m * 2^e: no leading and no trailing zero bit.
Dyadic(m, e) ==
    IF \A i \in 1..Len(m) : m[i] = 0 THEN Zero
    ELSE LET lead == StripLead(m)
             last == CHOOSE i \in 1..Len(lead) :
                         lead[i] = 1 /\ \A j \in (i + 1)..Len(lead) : lead[j] = 0
         IN [m |-> SubSeq(lead, 1, last), e |-> e + (Len(lead) - last)]

Zeros(k) == [i \in 1..k |-> 0]

RECURSIVE BitsVal(_)
\* The number a short bit sequence stands for.
BitsVal(m) == IF m = <<>> THEN 0 ELSE 2 * BitsVal(SubSeq(m, 1, Len(m) - 1)) + m[Len(m)]

\* The k low bits of a number.
LowBits(v, k) == [i \in 1..k |-> (v \div 2^(k - i)) % 2]

\* Bits added at a time (the sum of two chunks and a carry fits an integer).
Chunk == 16

RECURSIVE AddBits(_, _, _)
\* The sum of two bit sequences of equal length n and a carry, as n + 1
\* bits, computed a chunk of low bits at a time.
AddBits(a, b, carry) ==
    LET n == Len(a)
        k == IF n < Chunk THEN n ELSE Chunk
        t == BitsVal(SubSeq(a, n - k + 1, n)) + BitsVal(SubSeq(b, n - k + 1, n)) + carry
    IN IF n <= Chunk THEN LowBits(t, n + 1)
       ELSE AddBits(SubSeq(a, 1, n - k), SubSeq(b, 1, n - k), t \div 2^k)
                \o LowBits(t % 2^k, k)

\* x + y, exactly.
DAdd(x, y) ==
    LET e == IF x.e < y.e THEN x.e ELSE y.e
        a == x.m \o Zeros(x.e - e)
        b == y.m \o Zeros(y.e - e)
        n == IF Len(a) > Len(b) THEN Len(a) ELSE Len(b)
        pa == Zeros(n - Len(a)) \o a
        pb == Zeros(n - Len(b)) \o b
    IN Dyadic(AddBits(pa, pb, 0), e)

RECURSIVE DMulInt(_, _)
\* x * k for a natural number k, exactly.
DMulInt(x, k) ==
    IF k = 0 \/ x.m = <<>> THEN Zero
    ELSE LET twice == DMulInt([m |-> x.m, e |-> x.e + 1], k \div 2)
         IN IF k % 2 = 1 THEN DAdd(x, twice) ELSE twice

\* x <= y
DLe(x, y) ==
    LET e == IF x.e < y.e THEN x.e ELSE y.e
        a == x.m \o Zeros(x.e - e)
        b == y.m \o Zeros(y.e - e)
        n == IF Len(a) > Len(b) THEN Len(a) ELSE Len(b)
        pa == Zeros(n - Len(a)) \o a
        pb == Zeros(n - Len(b)) \o b
    IN \/ pa = pb
       \/ \E i \in 1..n : pa[i] < pb[i] /\ \A j \in 1..(i - 1) : pa[j] = pb[j]

\* Rounding of an exact value to the nearest binary64, ties to even.
Round(x) ==
    IF Len(x.m) <= Precision THEN x
    ELSE LET keep == SubSeq(x.m, 1, Precision)
             rest == SubSeq(x.m, Precision + 1, Len(x.m))
             e == x.e + Len(rest)
             sticky == \E i \in 2..Len(rest) : rest[i] = 1
             up == rest[1] = 1 /\ (sticky \/ keep[Precision] = 1)
         IN IF up THEN DAdd(Dyadic(keep, e), Dyadic(<<1>>, e))
                  ELSE Dyadic(keep, e)

\* An integer-valued float.
FromInt(n) == Round(Dyadic(BitsOf(n), 0))

RECURSIVE Pow2Mod(_, _)
\* 2^i mod b
Pow2Mod(i, b) ==
    IF i = 0 THEN 1 % b
    ELSE LET h == Pow2Mod(i \div 2, b)
         IN IF i % 2 = 0 THEN (h * h) % b ELSE (2 * ((h * h) % b)) % b

\* a / b for integer-valued floats a >= 0, b > 0: the integer part and,
\* by long division, enough bits of the fraction (the remainder after i
\* bits is (a mod b) * 2^i mod b); a last bit stands for all that follows.
FDiv(a, b) ==
    LET n == Precision + 2 + Len(BitsOf(b))
        rem(i) == ((a % b) * Pow2Mod(i, b)) % b
        frac == [i \in 1..n |-> IF 2 * rem(i - 1) >= b THEN 1 ELSE 0]
        more == IF rem(n) # 0 THEN 1 ELSE 0
    IN Round(Dyadic(BitsOf(a \div b) \o frac \o <<more>>, 0 - (n + 1)))

\* x * k for a float x and an integer-valued float k.
FMul(x, k) == Round(DMulInt(x, k))

\* x + y
FAdd(x, y) == Round(DAdd(x, y))

---------------------------------------------------------------------------
(* DataBuffer operations.                                                  *)

\* A callback thread that is not inside a getter.
IdleReader ==
    [pc |-> "idle", group |-> None, limit |-> 0,
     tmp |-> [obj |-> None, items |-> <<>>],
     ret |-> [obj |-> None, items |-> <<>>],
     seen |-> <<>>]

Init ==
    /\ btc_trades = <<>>
    /\ eth_trades = <<>>
    /\ lock = None
    /\ add_count = 0
    /\ ret = [obj |-> None, items |-> <<>>]
    /\ r_group = None
    /\ r_limit = 0
    /\ r_at = 0
    /\ r_snapshot = <<>>
    /\ calls = <<>>
    /\ c_pc = "idle"
    /\ c_arg = <<>>
    /\ rd = [r \in Readers |-> IdleReader]
    /\ fig = [kind |-> None]
    /\ ws = "none"
    /\ received = <<>>
    /\ delivered = <<>>
    /\ archive = << >>
    /\ printed = <<>>
    /\ proc = [main |-> "import", dashboard_instance |-> None,
               cleanup_called |-> FALSE, collector_running |-> FALSE,
               collector_thread |-> None, signals |-> 0, stops |-> 0, joins |-> 0]

\* (mutant) the ETH test made first.
add_trade_body_eth_first(buf, inst_id, trade_data) ==
    IF str_in(ETH, upper(inst_id))
    THEN [buf EXCEPT !.eth_trades = deque_append(@, trade_data)]
    ELSE IF str_in(BTC, upper(inst_id))
    THEN [buf EXCEPT !.btc_trades = deque_append(@, trade_data)]
    ELSE buf

\* The body of add_trade's `with self.lock:` block: the two deques after it,
\* given the two deques before it.
add_trade_body(buf, inst_id, trade_data) ==
    IF str_in(BTC, upper(inst_id))
    THEN [buf EXCEPT !.btc_trades = deque_append(@, trade_data)]
    ELSE IF str_in(ETH, upper(inst_id))
    THEN [buf EXCEPT !.eth_trades = deque_append(@, trade_data)]
    ELSE buf

\* The two deques of the DataBuffer.
Deques == [btc_trades |-> btc_trades, eth_trades |-> eth_trades]

\* (mutant) the deque itself handed out instead of a copy.
get_btc_trades_alias(limit) == [obj |-> "btc_trades", items |-> btc_trades]

\* The value of get_btc_trades(limit) / get_eth_trades(limit).
get_btc_trades(limit) == slice_last(list_copy(btc_trades), limit)
get_eth_trades(limit) == slice_last(list_copy(eth_trades), limit)

\* The trade record the n-th call carries in the buffer specification.
TradeInput(n, inst_id) ==
    [trade_id |-> n, price |-> 100, volume |-> 1, inst_id |-> inst_id]

\* Limits a caller may pass.
Limits == 0..(MaxAdds + 1)

\* One whole add_trade call (lock taken and released inside).
AddTrade(inst_id, trade_data) ==
    /\ lock = None
    /\ add_count' = add_count + 1
    /\ btc_trades' = add_trade_body(Deques, inst_id, trade_data).btc_trades
    /\ eth_trades' = add_trade_body(Deques, inst_id, trade_data).eth_trades
    /\ calls' = Append(calls, <<inst_id, trade_data>>)
    /\ UNCHANGED <<lock, ret, r_group, r_limit, r_at, r_snapshot, c_pc, c_arg, rd, fig, feedVars>>

\* One whole get_btc_trades call.
GetBtcTrades(limit) ==
    /\ lock = None
    /\ ret' = get_btc_trades(limit)
    /\ r_group' = "BTC"
    /\ r_limit' = limit
    /\ r_at' = Len(calls)
    /\ r_snapshot' = get_btc_trades(limit).items
    /\ UNCHANGED <<btc_trades, eth_trades, lock, add_count, calls, c_pc, c_arg, rd, fig, feedVars>>

\* One whole get_eth_trades call.
GetEthTrades(limit) ==
    /\ lock = None
    /\ ret' = get_eth_trades(limit)
    /\ r_group' = "ETH"
    /\ r_limit' = limit
    /\ r_at' = Len(calls)
    /\ r_snapshot' = get_eth_trades(limit).items
    /\ UNCHANGED <<btc_trades, eth_trades, lock, add_count, calls, c_pc, c_arg, rd, fig, feedVars>>

Next ==
    \/ /\ add_count < MaxAdds
       /\ \E inst_id \in InstIds : AddTrade(inst_id, TradeInput(add_count + 1, inst_id))
    \/ \E limit \in Limits : GetBtcTrades(limit)
    \/ \E limit \in Limits : GetEthTrades(limit)

Spec == Init /\ [][Next]_vars


---------------------------------------------------------------------------
(* The same operations step by step, with the collector thread and the     *)
(* callback threads interleaved: `with self.lock:` is an acquire that      *)
(* waits for the lock, the block, and a release.                           *)

\* (mutant) the lock taken without waiting for its holder.
lock_acquire_nowait(t) == lock' = t

\* threading.Lock.acquire(): enabled only while nobody holds the lock.
lock_acquire(t) ==
    /\ lock = None
    /\ lock' = t

\* threading.Lock.release() at the end of the with block.
lock_release(t) == lock' = None

\* add_trade, line 63: the call starts and counts itself, outside the lock.
C_Call(inst_id, trade_data) ==
    /\ c_pc = "idle"
    /\ add_count < MaxConcAdds
    /\ add_count' = add_count + 1
    /\ c_arg' = <<inst_id, trade_data>>
    /\ c_pc' = "acquire"
    /\ UNCHANGED <<btc_trades, eth_trades, lock, calls, rd,
                   ret, r_group, r_limit, r_at, r_snapshot, fig, feedVars>>

\* add_trade, line 65: with self.lock
C_Acquire ==
    /\ c_pc = "acquire"
    /\ lock_acquire(Collector)
    /\ c_pc' = "body"
    /\ UNCHANGED <<btc_trades, eth_trades, add_count, calls, c_arg, rd,
                   ret, r_group, r_limit, r_at, r_snapshot, fig, feedVars>>

\* add_trade, lines 66-72: the append
C_Body ==
    /\ c_pc = "body"
    /\ btc_trades' = add_trade_body(Deques, c_arg[1], c_arg[2]).btc_trades
    /\ eth_trades' = add_trade_body(Deques, c_arg[1], c_arg[2]).eth_trades
    /\ calls' = Append(calls, c_arg)
    /\ c_pc' = "release"
    /\ UNCHANGED <<lock, add_count, c_arg, rd,
                   ret, r_group, r_limit, r_at, r_snapshot, fig, feedVars>>

\* add_trade: leaving the with block
C_Release ==
    /\ c_pc = "release"
    /\ lock_release(Collector)
    /\ c_pc' = "idle"
    /\ c_arg' = <<>>
    /\ UNCHANGED <<btc_trades, eth_trades, add_count, calls, rd,
                   ret, r_group, r_limit, r_at, r_snapshot, fig, feedVars>>

\* A callback calls get_btc_trades(limit) or get_eth_trades(limit).
R_Call(r, group, limit) ==
    /\ rd[r].pc = "idle"
    /\ rd' = [rd EXCEPT ![r] = [IdleReader EXCEPT !.pc = "acquire",
                                                  !.group = group,
                                                  !.limit = limit]]
    /\ UNCHANGED <<btc_trades, eth_trades, lock, add_count, calls, c_pc, c_arg,
                   ret, r_group, r_limit, r_at, r_snapshot, fig, feedVars>>

\* get_*_trades: with self.lock
R_Acquire(r) ==
    /\ rd[r].pc = "acquire"
    /\ lock_acquire(r)
    /\ rd' = [rd EXCEPT ![r].pc = "copy",
                        ![r].seen = IF rd[r].group = "BTC" THEN btc_trades
                                                           ELSE eth_trades]
    /\ UNCHANGED <<btc_trades, eth_trades, add_count, calls, c_pc, c_arg,
                   ret, r_group, r_limit, r_at, r_snapshot, fig, feedVars>>

\* get_*_trades: list(self.btc_trades) / list(self.eth_trades)
R_Copy(r) ==
    /\ rd[r].pc = "copy"
    /\ rd' = [rd EXCEPT ![r].pc = "slice",
                        ![r].tmp = IF rd[r].group = "BTC"
                                   THEN list_copy(btc_trades)
                                   ELSE list_copy(eth_trades)]
    /\ UNCHANGED <<btc_trades, eth_trades, lock, add_count, calls, c_pc, c_arg,
                   ret, r_group, r_limit, r_at, r_snapshot, fig, feedVars>>

\* get_*_trades: [-limit:], the value to return
R_Slice(r) ==
    /\ rd[r].pc = "slice"
    /\ rd' = [rd EXCEPT ![r].pc = "release",
                        ![r].ret = slice_last(rd[r].tmp, rd[r].limit)]
    /\ UNCHANGED <<btc_trades, eth_trades, lock, add_count, calls, c_pc, c_arg,
                   ret, r_group, r_limit, r_at, r_snapshot, fig, feedVars>>

\* get_*_trades: leaving the with block; the caller has the value
R_Release(r) ==
    /\ rd[r].pc = "release"
    /\ lock_release(r)
    /\ rd' = [rd EXCEPT ![r].pc = "done"]
    /\ UNCHANGED <<btc_trades, eth_trades, add_count, calls, c_pc, c_arg,
                   ret, r_group, r_limit, r_at, r_snapshot, fig, feedVars>>

\* The callback finishes; its locals are gone.
R_Finish(r) ==
    /\ rd[r].pc = "done"
    /\ rd' = [rd EXCEPT ![r] = IdleReader]
    /\ UNCHANGED <<btc_trades, eth_trades, lock, add_count, calls, c_pc, c_arg,
                   ret, r_group, r_limit, r_at, r_snapshot, fig, feedVars>>

\* The instruments the collector subscribes to (start_collector's channels).
Subscribed == {BTC_USDT, ETH_USDT}

\* The limits the callbacks pass.
CallbackLimits == {DominanceLimit, ProfileLimit}

CollectorStep ==
    \/ \E inst_id \in Subscribed : C_Call(inst_id, TradeInput(add_count + 1, inst_id))
    \/ C_Acquire
    \/ C_Body
    \/ C_Release

ReaderStep(r) ==
    \/ \E group \in {"BTC", "ETH"}, limit \in CallbackLimits : R_Call(r, group, limit)
    \/ R_Acquire(r)
    \/ R_Copy(r)
    \/ R_Slice(r)
    \/ R_Release(r)
    \/ R_Finish(r)

NextConc ==
    \/ CollectorStep
    \/ \E r \in Readers : ReaderStep(r)

SpecConc == Init /\ [][NextConc]_vars

\* Threads keep running (weak fairness of every step of a call in progress),
\* and a thread waiting for a lock that is free again and again gets it.
FairConc ==
    /\ WF_vars(C_Body) /\ WF_vars(C_Release) /\ SF_vars(C_Acquire)
    /\ \A r \in Readers :
         /\ WF_vars(R_Copy(r)) /\ WF_vars(R_Slice(r)) /\ WF_vars(R_Release(r))
         /\ SF_vars(R_Acquire(r))

FairSpecConc == SpecConc /\ FairConc

---------------------------------------------------------------------------
(* The chart callbacks.  Numbers that may have a fractional part (bin      *)
(* size, price level) are held in units of 1/Unit, which is exact for the  *)
(* prices of the model.                                                    *)

\* bins = 20
Bins == 20
\* Fixed-point unit: half a bin of a price range of 1.
Unit == 2 * Bins

\* Prices and volumes of the trades fed to the volume-profile callbacks.
Prices == {100, 110, 120}
ProfileVolumes == {1, 2}
\* Volumes of the trades fed to the dominance callback.
Volumes == {0, 2, 3, 7}

RECURSIVE sum(_)
\* sum(...) over a sequence of numbers
sum(s) == IF s = <<>> THEN 0 ELSE s[1] + sum(Tail(s))

\* min(prices), max(prices)
min(s) == CHOOSE x \in {s[i] : i \in 1..Len(s)} : \A i \in 1..Len(s) : x <= s[i]
max(s) == CHOOSE x \in {s[i] : i \in 1..Len(s)} : \A i \in 1..Len(s) : x >= s[i]

RECURSIVE sorted(_)
\* sorted(keys): the members of a finite set of numbers, ascending
sorted(S) ==
    IF S = {} THEN <<>>
    ELSE LET least == CHOOSE x \in S : \A y \in S : x <= y
         IN <<least>> \o sorted(S \ {least})

\* (mutant) the fallback width taken from the wrong name.
bin_size_else_bins(price_range) ==
    IF price_range > 0 THEN (price_range * Unit) \div Bins ELSE Bins * Unit

\* bin_size = price_range / bins if price_range > 0 else 1
bin_size_of(price_range) ==
    IF price_range > 0 THEN (price_range * Unit) \div Bins ELSE 1 * Unit

\* bin_idx = int((price - min_price) / bin_size)
bin_idx_of(price, min_price, bin_size) == ((price - min_price) * Unit) \div bin_size

\* price_level = min_price + bin_idx * bin_size + bin_size / 2
price_level_of(bin_idx, min_price, bin_size) ==
    min_price * Unit + bin_idx * bin_size + bin_size \div 2

\* (mutant) the bucket assigned instead of added to.
add_to_bucket_overwrite(volume_by_price, price_level, volume) ==
    IF price_level \in DOMAIN volume_by_price
    THEN [volume_by_price EXCEPT ![price_level] = volume]
    ELSE volume_by_price @@ (price_level :> volume)

\* if price_level not in volume_by_price: ... = 0;  ... += volume
add_to_bucket(volume_by_price, price_level, volume) ==
    IF price_level \in DOMAIN volume_by_price
    THEN [volume_by_price EXCEPT ![price_level] = @ + volume]
    ELSE volume_by_price @@ (price_level :> 0 + volume)

RECURSIVE group_volumes(_, _, _, _)
\* The for loop over zip(prices, volumes), from the i-th trade on.
group_volumes(trades, i, min_price, bin_size) ==
    IF i = 0 THEN << >>
    ELSE LET bin_idx == bin_idx_of(trades[i].price, min_price, bin_size)
             price_level == price_level_of(bin_idx, min_price, bin_size)
         IN add_to_bucket(group_volumes(trades, i - 1, min_price, bin_size),
                          price_level, trades[i].volume)

\* The figure update_btc_chart / update_eth_chart returns for a sample.
volume_profile(chart, trades) ==
    IF trades = <<>> THEN [kind |-> "nodata", chart |-> chart]
    ELSE LET prices == [i \in 1..Len(trades) |-> trades[i].price]
             min_price == min(prices)
             max_price == max(prices)
             price_range == max_price - min_price
             bin_size == bin_size_of(price_range)
             volume_by_price == group_volumes(trades, Len(trades), min_price, bin_size)
             sorted_prices == sorted(DOMAIN volume_by_price)
             sorted_volumes == [k \in 1..Len(sorted_prices) |->
                                   volume_by_price[sorted_prices[k]]]
         IN [kind |-> "profile", chart |-> chart, at |-> Len(calls), trades |-> trades,
             min_price |-> min_price, max_price |-> max_price,
             bin_size |-> bin_size,
             bin_idx |-> [i \in 1..Len(trades) |->
                             bin_idx_of(trades[i].price, min_price, bin_size)],
             y |-> sorted_prices, x |-> sorted_volumes]

\* (mutant) the share left a fraction, not a percentage.
share_fraction(volume, btc_volume, eth_volume) ==
    IF btc_volume + eth_volume = 0 THEN FromInt(50)
    ELSE FDiv(volume, btc_volume + eth_volume)

\* btc_pct / eth_pct: 50 when total_volume == 0, else (volume / total_volume) * 100
share(volume, btc_volume, eth_volume) ==
    IF btc_volume + eth_volume = 0 THEN FromInt(50)
    ELSE FMul(FDiv(volume, btc_volume + eth_volume), 100)

\* The figure update_dominance_chart returns.
dominance(btc_sample, eth_sample) ==
    LET btc_volume == sum([i \in 1..Len(btc_sample) |-> btc_sample[i].volume])
        eth_volume == sum([i \in 1..Len(eth_sample) |-> eth_sample[i].volume])
    IN [kind |-> "dominance", at |-> Len(calls),
        btc_trades |-> btc_sample, eth_trades |-> eth_sample,
        btc_volume |-> btc_volume, eth_volume |-> eth_volume,
        btc_pct |-> share(btc_volume, btc_volume, eth_volume),
        eth_pct |-> share(eth_volume, btc_volume, eth_volume)]

UpdateBtcChart ==
    /\ lock = None
    /\ fig' = volume_profile("BTC", get_btc_trades(ProfileLimit).items)
    /\ UNCHANGED <<btc_trades, eth_trades, lock, add_count, calls, c_pc, c_arg, rd,
                   ret, r_group, r_limit, r_at, r_snapshot, feedVars>>

UpdateEthChart ==
    /\ lock = None
    /\ fig' = volume_profile("ETH", get_eth_trades(ProfileLimit).items)
    /\ UNCHANGED <<btc_trades, eth_trades, lock, add_count, calls, c_pc, c_arg, rd,
                   ret, r_group, r_limit, r_at, r_snapshot, feedVars>>

UpdateDominanceChart ==
    /\ lock = None
    /\ fig' = dominance(get_btc_trades(DominanceLimit).items,
                        get_eth_trades(DominanceLimit).items)
    /\ UNCHANGED <<btc_trades, eth_trades, lock, add_count, calls, c_pc, c_arg, rd,
                   ret, r_group, r_limit, r_at, r_snapshot, feedVars>>

\* A trade record with the fields the buffer and the charts read.
Trade(n, inst_id, price, volume) ==
    [trade_id |-> n, price |-> price, volume |-> volume, inst_id |-> inst_id]

NextProfile ==
    \/ /\ add_count < MaxProfileAdds
       /\ \E inst_id \in Subscribed, price \in Prices, volume \in ProfileVolumes :
              AddTrade(inst_id, Trade(add_count + 1, inst_id, price, volume))
    \/ UpdateBtcChart
    \/ UpdateEthChart

SpecProfile == Init /\ [][NextProfile]_vars

NextDominance ==
    \/ /\ add_count < MaxDominanceAdds
       /\ \E inst_id \in Subscribed, volume \in Volumes :
              AddTrade(inst_id, Trade(add_count + 1, inst_id, 100, volume))
    \/ UpdateDominanceChart

SpecDominance == Init /\ [][NextDominance]_vars

---------------------------------------------------------------------------
(* The feed: OKXWebSocketClient's read loop, Dashboard.handle_data and     *)
(* DataManager.save_raw_data.  A decoded JSON object is a record that has  *)
(* exactly the keys the object has; JSON strings the code parses or        *)
(* searches are sequences of characters.  File names leave out the date.   *)

TRADE   == <<"t", "r", "a", "d", "e">>
TRADES  == <<"t", "r", "a", "d", "e", "s">>
TICKERS == <<"t", "i", "c", "k", "e", "r", "s">>
UNKNOWN == <<"u", "n", "k", "n", "o", "w", "n">>

\* dict.get(key, default)
Get(d, key, default) == IF key \in DOMAIN d THEN d[key] ELSE default

DigitValue(c) ==
    CASE c = "0" -> 0 [] c = "1" -> 1 [] c = "2" -> 2 [] c = "3" -> 3
      [] c = "4" -> 4 [] c = "5" -> 5 [] c = "6" -> 6 [] c = "7" -> 7
      [] c = "8" -> 8 [] c = "9" -> 9 [] OTHER -> 0 - 1

RECURSIVE DecimalValue(_)
DecimalValue(s) ==
    IF s = <<>> THEN 0
    ELSE 10 * DecimalValue(SubSeq(s, 1, Len(s) - 1)) + DigitValue(s[Len(s)])

\* int(s) / float(s) of a string: its value when s is a decimal numeral,
\* ValueError otherwise.
parse_number(s) ==
    IF s # <<>> /\ \A i \in 1..Len(s) : DigitValue(s[i]) >= 0
    THEN [ok |-> TRUE, value |-> DecimalValue(s)]
    ELSE [ok |-> FALSE]

\* The trade entries messages carry.
Good1    == [px |-> <<"1", "0", "0">>, sz |-> <<"3">>, ts |-> <<"1", "7">>,
             side |-> "buy", tradeId |-> <<"1">>]
Good2    == [px |-> <<"1", "1", "0">>, sz |-> <<"7">>, ts |-> <<"1", "8">>,
             side |-> "sell"]
NoSide   == [px |-> <<"1", "0", "0">>, sz |-> <<"3">>, ts |-> <<"1", "7">>]
BadPx    == [px |-> <<"a", "b", "c">>, sz |-> <<"3">>, ts |-> <<"1", "7">>,
             side |-> "buy"]
EthEntry == [px |-> <<"1", "2", "0">>, sz |-> <<"3">>, ts |-> <<"1", "9">>,
             side |-> "buy", instId |-> ETH_USDT]

\* The `data` lists messages carry.
DataLists ==
    {<<>>, <<Good1>>, <<Good2, NoSide, Good1>>, <<BadPx, Good2>>, <<EthEntry>>}

Args ==
    {[channel |-> TRADES, instId |-> BTC_USDT],
     [channel |-> TRADES, instId |-> ETH_USDT],
     [channel |-> TICKERS, instId |-> BTC_USDT]}

\* The JSON object with the given arg, the event in `event` (if any) and
\* the data list in `data` (if any).
Message(arg, event, data) ==
    [k \in {"arg"} \cup {"event" : e \in event} \cup {"data" : d \in data} |->
        CASE k = "arg" -> arg
          [] k = "event" -> CHOOSE e \in event : TRUE
          [] k = "data" -> CHOOSE d \in data : TRUE]

\* Decoded messages: without an event (or with an empty one) and any data,
\* and event messages with and without data.
Messages ==
    {Message(arg, event, data) :
        arg \in Args, event \in {{}, {""}}, data \in {{}} \cup {{d} : d \in DataLists}}
    \cup
    {Message(arg, {event}, data) :
        arg \in Args, event \in {"subscribe", "error"}, data \in {{}, {<<Good1>>}}}

\* What arrives on the socket: text that is not JSON, a JSON array, or a
\* JSON object.
RawMessages ==
    {[kind |-> "garbage"], [kind |-> "array"]}
        \cup {[kind |-> "object", msg |-> m] : m \in Messages}

\* save_raw_data: the files after the message is appended to its file.
save_raw_data(files, msg) ==
    LET arg == Get(msg, "arg", << >>)
        channel == Get(arg, "channel", UNKNOWN)
        inst_id == Get(arg, "instId", UNKNOWN)
        folder == IF str_in(TRADE, channel) THEN "trades" ELSE "other"
        filepath == <<folder, inst_id, channel>>
        line == [json |-> msg]
    IN IF filepath \in DOMAIN files
       THEN [files EXCEPT ![filepath] = Append(@, line)]
       ELSE files @@ (filepath :> <<line>>)

\* handle_data, lines 505-529: one entry of msg['data'].
handle_trade(st, inst_id, trade) ==
    IF \E field \in {"px", "sz", "ts", "side"} : field \notin DOMAIN trade
    THEN st
    ELSE LET timestamp == parse_number(trade.ts)
             price == parse_number(trade.px)
             volume == parse_number(trade.sz)
         IN IF ~(timestamp.ok /\ price.ok /\ volume.ok)
            THEN st
            ELSE LET trade_data == [timestamp |-> timestamp.value,
                                    side |-> trade.side,
                                    trade_id |-> Get(trade, "tradeId", <<>>),
                                    price |-> price.value,
                                    volume |-> volume.value,
                                    inst_id |-> Get(trade, "instId", inst_id)]
                     buf == add_trade_body([btc_trades |-> st.btc_trades,
                                            eth_trades |-> st.eth_trades],
                                           inst_id, trade_data)
                 IN [st EXCEPT !.add_count = @ + 1,
                               !.btc_trades = buf.btc_trades,
                               !.eth_trades = buf.eth_trades,
                               !.calls = Append(@, <<inst_id, trade_data>>)]

RECURSIVE handle_trades(_, _, _, _)
\* handle_data, line 504: the for loop over the first n entries.
handle_trades(st, inst_id, trades, n) ==
    IF n = 0 THEN st
    ELSE handle_trade(handle_trades(st, inst_id, trades, n - 1), inst_id, trades[n])

\* handle_data: the buffer, counter and files after the call; io_ok tells
\* whether save_raw_data could write.
handle_data(st, msg, io_ok) ==
    IF ~io_ok THEN st
    ELSE LET saved == [st EXCEPT !.archive = save_raw_data(@, msg)]
         IN IF "data" \in DOMAIN msg /\ msg.data # <<>>
            THEN LET arg == Get(msg, "arg", << >>)
                     inst_id == Get(arg, "instId", <<>>)
                     channel == Get(arg, "channel", <<>>)
                 IN IF channel = TRADES
                    THEN handle_trades(saved, inst_id, msg.data, Len(msg.data))
                    ELSE saved
            ELSE saved

\* (mutant) the event branch falls through to the data test.
handle_message_no_return(msg) ==
    LET event == Get(msg, "event", None)
        logged == IF event \in {None, ""} THEN <<>>
                  ELSE IF event = "error" THEN <<"ERROR">> ELSE <<"Event">>
    IN IF "data" \in DOMAIN msg /\ Len(msg.data) > 0
       THEN [printed |-> logged, deliver |-> TRUE]
       ELSE [printed |-> logged, deliver |-> FALSE]

\* _handle_message: what it prints and whether it calls data_handler(msg).
handle_message(msg) ==
    LET event == Get(msg, "event", None)
    IN IF event \notin {None, ""}
       THEN IF event = "error"
            THEN [printed |-> <<"ERROR">>, deliver |-> FALSE]
            ELSE [printed |-> <<"Event">>, deliver |-> FALSE]
       ELSE IF "data" \in DOMAIN msg /\ Len(msg.data) > 0
            THEN [printed |-> <<>>, deliver |-> TRUE]
            ELSE [printed |-> <<>>, deliver |-> FALSE]

\* The state handle_data works on.
BufferAndFiles ==
    [btc_trades |-> btc_trades, eth_trades |-> eth_trades,
     add_count |-> add_count, calls |-> calls, archive |-> archive]

\* (mutant) the collector connects anew when the read loop has ended.
after_read_loop_retry(conn) == "none"

\* collect_data, lines 565-575: connect_and_listen is awaited once, and once
\* it has returned or raised the client is closed for good.
after_read_loop(conn) == "closed"

\* connect_and_listen, lines 84-92: connect and subscribe.
Connect ==
    /\ ws = "none"
    /\ ws' = "open"
    /\ printed' = printed \o <<"Connected", "Subscribed">>
    /\ UNCHANGED <<btc_trades, eth_trades, lock, add_count, calls, c_pc, c_arg, rd,
                   ret, r_group, r_limit, r_at, r_snapshot, fig,
                   received, delivered, archive, proc>>

\* connect_and_listen, line 84, and collect_data, lines 567-575: the
\* connection cannot be made; the exception is printed by collect_data, which
\* closes the client and returns.
ConnectFail ==
    /\ ws = "none"
    /\ ws' = after_read_loop(ws)
    /\ printed' = Append(printed, "Collector error")
    /\ UNCHANGED <<btc_trades, eth_trades, lock, add_count, calls, c_pc, c_arg, rd,
                   ret, r_group, r_limit, r_at, r_snapshot, fig,
                   received, delivered, archive, proc>>

\* (mutant) an exception in the loop body ends the read loop.
except_ends_loop(conn) == "closed"

\* connect_and_listen, lines 101-104: the except clauses are inside the
\* loop body, so after one the connection is read on as before.
except_in_loop(conn) == conn

\* connect_and_listen, lines 95-104: one turn of the read loop, with
\* everything the message handler does.
Receive(raw, io_ok) ==
    /\ ws = "open"
    /\ lock = None
    /\ received' = Append(received, raw)
    /\ IF raw.kind = "garbage"
       THEN /\ printed' = Append(printed, "JSON decode error")
            /\ ws' = except_in_loop(ws)
            /\ UNCHANGED <<btc_trades, eth_trades, add_count, calls, archive, delivered>>
       ELSE IF raw.kind = "array"
       THEN /\ printed' = Append(printed, "Error handling message")
            /\ ws' = except_in_loop(ws)
            /\ UNCHANGED <<btc_trades, eth_trades, add_count, calls, archive, delivered>>
       ELSE LET handled == handle_message(raw.msg)
                st == IF handled.deliver
                      THEN handle_data(BufferAndFiles, raw.msg, io_ok)
                      ELSE BufferAndFiles
            IN /\ printed' = printed \o handled.printed
               /\ delivered' = IF handled.deliver THEN Append(delivered, raw.msg)
                                                  ELSE delivered
               /\ btc_trades' = st.btc_trades
               /\ eth_trades' = st.eth_trades
               /\ add_count' = st.add_count
               /\ calls' = st.calls
               /\ archive' = st.archive
               /\ ws' = ws
    /\ UNCHANGED <<lock, c_pc, c_arg, rd, ret, r_group, r_limit, r_at, r_snapshot,
                   fig, proc>>

\* connect_and_listen, lines 95 and 106-108, and collect_data, lines
\* 567-575: the connection ends and so does the read loop, normally (the
\* client prints "Disconnected") or with an exception (collect_data prints
\* it); collect_data then closes the client and returns.
Disconnect(raised) ==
    /\ ws = "open"
    /\ ws' = after_read_loop(ws)
    /\ printed' = Append(printed, IF raised THEN "Collector error" ELSE "Disconnected")
    /\ UNCHANGED <<btc_trades, eth_trades, lock, add_count, calls, c_pc, c_arg, rd,
                   ret, r_group, r_limit, r_at, r_snapshot, fig,
                   received, delivered, archive, proc>>

NextFeed ==
    \/ Connect
    \/ ConnectFail
    \/ /\ Len(received) < MaxMsgs
       /\ \E raw \in RawMessages, io_ok \in BOOLEAN : Receive(raw, io_ok)
    \/ \E raised \in BOOLEAN : Disconnect(raised)

SpecFeed == Init /\ [][NextFeed]_vars

---------------------------------------------------------------------------
(* The process: main(), the signal handlers and the atexit hook, and the   *)
(* collector thread started by Dashboard.__init__.  proc.main is where the *)
(* main thread is: "import" (handlers registered, main() not yet in        *)
(* Dashboard()), "init" (Dashboard.__init__ has started the collector, the *)
(* global dashboard_instance is not yet assigned), "serving" (in run()),   *)
(* "handler_join" (in cleanup_handler, inside join), "exiting" (SystemExit *)
(* raised or main() over, atexit hooks due), "atexit_join" (in the atexit  *)
(* hook, inside join), "exited".  proc.stops and proc.joins are history:   *)
(* how often stop_collector got past its guard and how often it joined.    *)

\* stop_collector, lines 587-595, up to the join: the process record after,
\* with main at `joining` when the thread is to be joined and at `done` when
\* stop_collector returns at once.
stop_collector(p, joining, done) ==
    IF ~p.collector_running
    THEN [p EXCEPT !.main = done]
    ELSE LET q == [p EXCEPT !.collector_running = FALSE, !.stops = @ + 1]
         IN IF q.collector_thread = "alive"
            THEN [q EXCEPT !.joins = @ + 1, !.main = joining]
            ELSE [q EXCEPT !.main = done]

\* cleanup_handler, lines 103-119, up to a join or to sys.exit(0).  A handler
\* that raises SystemExit inside the atexit hook's join ends that hook.
cleanup_handler(p) ==
    IF p.cleanup_called THEN p
    ELSE LET q == [p EXCEPT !.cleanup_called = TRUE]
             exit == IF p.main = "atexit_join" THEN "exited" ELSE "exiting"
         IN IF q.dashboard_instance # None
            THEN stop_collector(q, "handler_join", exit)
            ELSE [q EXCEPT !.main = exit]

\* atexit_cleanup, lines 121-128
atexit_cleanup(p) ==
    IF p.dashboard_instance # None
    THEN stop_collector(p, "atexit_join", "exited")
    ELSE [p EXCEPT !.main = "exited"]

nonProc == <<btc_trades, eth_trades, lock, add_count, ret, r_group, r_limit,
             r_at, r_snapshot, calls, c_pc, c_arg, rd, fig,
             ws, received, delivered, archive, printed>>

\* main, line 614, and Dashboard.__init__, lines 150-169, with
\* start_collector, lines 539-582: the collector thread is started.
NewDashboard ==
    /\ proc.main = "import"
    /\ proc' = [proc EXCEPT !.main = "init", !.collector_running = TRUE,
                            !.collector_thread = "alive"]
    /\ UNCHANGED nonProc

\* main, line 614: the constructor has returned and the global is assigned.
Publish ==
    /\ proc.main = "init"
    /\ proc' = [proc EXCEPT !.main = "serving", !.dashboard_instance = "Dashboard"]
    /\ UNCHANGED nonProc

\* run, line 609: app.run returns or raises, and main() is over.
ServerReturns ==
    /\ proc.main = "serving"
    /\ proc' = [proc EXCEPT !.main = "exiting"]
    /\ UNCHANGED nonProc

\* SIGINT or SIGTERM is delivered to the main thread: lines 131-132.
Signal ==
    /\ proc.main # "exited"
    /\ proc.signals < MaxSignals
    /\ proc' = [cleanup_handler(proc) EXCEPT !.signals = @ + 1]
    /\ UNCHANGED nonProc

\* stop_collector, lines 595-599, and cleanup_handler, lines 116-119: the
\* join is over, because the thread has ended or because 5 s have passed,
\* and sys.exit(0) is raised.
JoinReturn ==
    /\ proc.main = "handler_join"
    /\ proc' = [proc EXCEPT !.main = "exiting"]
    /\ UNCHANGED nonProc

\* The interpreter runs the atexit hook: line 133.
AtExit ==
    /\ proc.main = "exiting"
    /\ proc' = atexit_cleanup(proc)
    /\ UNCHANGED nonProc

\* stop_collector, lines 595-599, called from the atexit hook: the join is
\* over and the process ends.
AtExitJoinReturn ==
    /\ proc.main = "atexit_join"
    /\ proc' = [proc EXCEPT !.main = "exited"]
    /\ UNCHANGED nonProc

\* What the collector thread gets in the shutdown specification.
LifeMessages ==
    {[kind |-> "garbage"],
     [kind |-> "object",
      msg |-> Message([channel |-> TRADES, instId |-> BTC_USDT], {}, {<<Good1>>})]}

\* run_collector, lines 544-578: a step of the collector thread, which
\* runs as long as the process does.
CollectorRuns ==
    /\ proc.collector_thread = "alive"
    /\ proc.main # "exited"
    /\ \/ Connect
       \/ ConnectFail
       \/ /\ Len(received) < MaxLifeMsgs
          /\ \E raw \in LifeMessages : Receive(raw, TRUE)
       \/ \E raised \in BOOLEAN : Disconnect(raised)

\* run_collector, line 578: asyncio.run returns and the thread ends.
CollectorExits ==
    /\ proc.collector_thread = "alive"
    /\ proc.main # "exited"
    /\ ws = "closed"
    /\ proc' = [proc EXCEPT !.collector_thread = "dead"]
    /\ UNCHANGED nonProc

NextLife ==
    \/ NewDashboard
    \/ Publish
    \/ ServerReturns
    \/ Signal
    \/ JoinReturn
    \/ AtExit
    \/ AtExitJoinReturn
    \/ CollectorRuns
    \/ CollectorExits

SpecLife == Init /\ [][NextLife]_vars

\* A join with a timeout returns, and the interpreter runs its exit hooks.
FairLife ==
    /\ WF_vars(JoinReturn)
    /\ WF_vars(AtExit)
    /\ WF_vars(AtExitJoinReturn)

FairSpecLife == SpecLife /\ FairLife

---------------------------------------------------------------------------
(* Reference notions the properties are stated with.                       *)

\* The group each instrument id of the model belongs to, written out.
ExpectedGroup(inst_id) ==
    CASE inst_id = BTC_USDT -> "BTC"
      [] inst_id = ETH_USDT -> "ETH"
      [] inst_id = eth_usdt -> "ETH"
      [] inst_id = ETH_BTC  -> "BTC"
      [] inst_id = XRP_USDT -> None

RECURSIVE GroupLog(_, _)
\* The records of the first n add_trade calls that belong to group g, in call order.
GroupLog(g, n) ==
    IF n = 0 THEN <<>>
    ELSE IF ExpectedGroup(calls[n][1]) = g
         THEN Append(GroupLog(g, n - 1), calls[n][2])
         ELSE GroupLog(g, n - 1)

\* The last k items of s (all of s when it has fewer).
LastN(s, k) == IF k >= Len(s) THEN s ELSE SubSeq(s, Len(s) - k + 1, Len(s))

InSeq(x, s) == \E i \in 1..Len(s) : s[i] = x

Buffer(g) == IF g = "BTC" THEN btc_trades ELSE eth_trades

\* The contents of group g's buffer when the last read was made.
BufferAtRead == LastN(GroupLog(r_group, r_at), Capacity)

---------------------------------------------------------------------------
(* C1: each group's buffer never holds more than Capacity records and is   *)
(* always the most recently appended records of its group in append order  *)
(* (oldest evicted first); after N > Capacity appends to a group,          *)
(* get_*_trades(N) returns exactly the last Capacity of them, in order.    *)
C1_LastCapacityKept ==
    /\ Len(btc_trades) <= Capacity
    /\ Len(eth_trades) <= Capacity
    /\ btc_trades = LastN(GroupLog("BTC", Len(calls)), Capacity)
    /\ eth_trades = LastN(GroupLog("ETH", Len(calls)), Capacity)
    /\ (/\ r_group # None
        /\ Len(GroupLog(r_group, r_at)) > Capacity
        /\ r_limit = Len(GroupLog(r_group, r_at)))
       => r_snapshot = LastN(GroupLog(r_group, r_at), Capacity)

\* A read with limit N after N = Capacity + 1 appends to BTC: the first record is gone.
C1_Witness ==
    /\ r_group # None
    /\ r_group = "BTC"
    /\ Len(GroupLog("BTC", r_at)) = Capacity + 1
    /\ r_limit = Capacity + 1
    /\ Len(r_snapshot) = Capacity
    /\ r_snapshot[1].trade_id = 2

(* C2: get_*_trades(limit) with 0 <= limit <= size returns exactly the     *)
(* limit most recently appended records in insertion order (none for       *)
(* limit = 0); with limit > size it returns all records.                   *)
C2_RecentLimit ==
    r_group # None =>
        /\ r_limit <= Len(BufferAtRead) => Len(r_snapshot) = r_limit
        /\ r_snapshot = LastN(BufferAtRead, r_limit)

(* C3: add_trade puts the record at the end of the BTC buffer when the     *)
(* upper-cased inst_id contains BTC, else at the end of the ETH buffer     *)
(* when it contains ETH, else nowhere; the other buffer (both, when the    *)
(* record is dropped) is unchanged, and a record of one group is never in  *)
(* the other group's buffer or in a sequence the other group's getter      *)
(* returned.                                                               *)
C3_ClassifiedToOneGroup ==
    /\ \A i \in 1..Len(calls) :
         LET g == ExpectedGroup(calls[i][1])
             rec == calls[i][2]
         IN /\ InSeq(rec, btc_trades) => g = "BTC"
            /\ InSeq(rec, eth_trades) => g = "ETH"
            /\ (r_group # None /\ InSeq(rec, r_snapshot)) => g = r_group
            /\ (i = Len(calls) /\ g = "BTC") =>
                   btc_trades[Len(btc_trades)] = rec
            /\ (i = Len(calls) /\ g = "ETH") =>
                   eth_trades[Len(eth_trades)] = rec
    /\ \A i \in 1..Len(btc_trades) : \E j \in 1..Len(calls) : calls[j][2] = btc_trades[i]
    /\ \A i \in 1..Len(eth_trades) : \E j \in 1..Len(calls) : calls[j][2] = eth_trades[i]

\* ETH-BTC went to BTC, a lower-case eth id went to ETH, and XRP was dropped.
C3_Witness ==
    /\ Len(calls) = 3
    /\ calls[1][1] = ETH_BTC
    /\ calls[2][1] = XRP_USDT
    /\ calls[3][1] = eth_usdt
    /\ Len(btc_trades) = 1
    /\ Len(eth_trades) = 1
    /\ r_group = "ETH"
    /\ r_at = 3
    /\ Len(r_snapshot) = 1

(* C4: a sequence returned by get_*_trades keeps its length, records and   *)
(* order whatever add_trade calls follow, evictions included.              *)
SnapshotIntact ==
    r_group # None => Contents(ret) = r_snapshot

C4_SnapshotDetached ==
    /\ []SnapshotIntact
    /\ [][add_count' = add_count =>
            (btc_trades' = btc_trades /\ eth_trades' = eth_trades)]_vars

\* A returned BTC record has since been evicted from the buffer.
C4_Witness ==
    /\ r_group # None
    /\ r_group = "BTC"
    /\ Len(r_snapshot) = 1
    /\ ~InSeq(r_snapshot[1], btc_trades)
    /\ Len(btc_trades) = Capacity

(* C5: with the collector thread appending and callback threads reading    *)
(* concurrently, at most one thread is inside a `with self.lock:` block    *)
(* (an append never overlaps a copy), the lock is held exactly by the      *)
(* thread inside its block and is free when nobody is, every returned      *)
(* snapshot is a suffix of its group's buffer as it stood when the read    *)
(* took the lock, every add_trade call takes effect exactly once, and      *)
(* every call that has started eventually completes.                       *)
InBlock(t) ==
    IF t = Collector THEN c_pc \in {"body", "release"}
    ELSE rd[t].pc \in {"copy", "slice", "release"}

IsSuffix(s, t) == Len(s) <= Len(t) /\ s = LastN(t, Len(s))

LockGuardsBothGroups ==
    /\ \A t, u \in Readers \cup {Collector} : (InBlock(t) /\ InBlock(u)) => t = u
    /\ \A t \in Readers \cup {Collector} : InBlock(t) <=> lock = t

SnapshotOfOneInstant ==
    \A r \in Readers :
        rd[r].pc \in {"release", "done"} =>
            /\ IsSuffix(rd[r].ret.items, rd[r].seen)
            /\ Len(rd[r].ret.items) = IF rd[r].limit < Len(rd[r].seen)
                                      THEN rd[r].limit ELSE Len(rd[r].seen)
            /\ \E k \in 0..Len(calls) :
                   rd[r].seen = LastN(GroupLog(rd[r].group, k), Capacity)

AppendsTakeEffectOnce ==
    /\ Len(calls) = add_count - (IF c_pc \in {"acquire", "body"} THEN 1 ELSE 0)
    /\ \A i \in 1..Len(calls) : calls[i][2].trade_id = i
    /\ btc_trades = LastN(GroupLog("BTC", Len(calls)), Capacity)
    /\ eth_trades = LastN(GroupLog("ETH", Len(calls)), Capacity)

C5_LockedAppendAndRead ==
    /\ []LockGuardsBothGroups
    /\ []SnapshotOfOneInstant
    /\ []AppendsTakeEffectOnce
    /\ (c_pc = "acquire") ~> (c_pc = "idle")
    /\ \A r \in Readers : (rd[r].pc = "acquire") ~> (rd[r].pc = "done")

\* One callback has its snapshot, the other waits for the lock while the
\* collector is appending.
C5_Witness ==
    /\ rd["cb1"].pc = "done"
    /\ Len(rd["cb1"].ret.items) = DominanceLimit
    /\ rd["cb2"].pc = "acquire"
    /\ c_pc = "body"
    /\ lock = Collector

(* C6: in a volume profile every record's volume is added to exactly one   *)
(* bucket: there is one bucket per bin index that occurs, a bucket's       *)
(* volume is the sum of the volumes of the records with that index, and    *)
(* the bucket volumes add up to the sum of the sampled volumes (to the     *)
(* record count when every volume is 1).                                   *)
SampleVolumes == [i \in 1..Len(fig.trades) |-> fig.trades[i].volume]

VolumeWithIdx(idx) ==
    sum([i \in 1..Len(fig.trades) |->
            IF fig.bin_idx[i] = idx THEN fig.trades[i].volume ELSE 0])

C6_VolumeConserved ==
    fig.kind = "profile" =>
        LET idxs == sorted({fig.bin_idx[i] : i \in 1..Len(fig.trades)})
        IN /\ fig.trades = LastN(GroupLog(fig.chart, fig.at), ProfileLimit)
           /\ Len(fig.x) = Len(idxs)
           /\ Len(fig.y) = Len(idxs)
           /\ \A k \in 1..Len(idxs) : fig.x[k] = VolumeWithIdx(idxs[k])
           /\ sum(fig.x) = sum(SampleVolumes)
           /\ (\A i \in 1..Len(fig.trades) : fig.trades[i].volume = 1)
                  => sum(fig.x) = Len(fig.trades)

\* Three records in two buckets: two of them share a bucket.
C6_Witness ==
    /\ fig.kind = "profile"
    /\ Len(fig.trades) = 3
    /\ Len(fig.x) = 2
    /\ fig.x[1] = 3
    /\ fig.x[2] = 2
    /\ fig.bin_idx[1] = fig.bin_idx[3]

(* C7: when max price > min price the profile has 20 equal-width buckets   *)
(* spanning [min price, max price]: every record, the one at the maximum   *)
(* price included, has a bin index in 0..19, there are at most 20 buckets, *)
(* every price level lies within [min price, max price], and the levels    *)
(* are emitted in ascending order.                                         *)
C7_TwentyBucketsInRange ==
    (fig.kind = "profile" /\ fig.max_price > fig.min_price) =>
        /\ \A i \in 1..Len(fig.trades) : fig.bin_idx[i] \in 0..(Bins - 1)
        /\ Len(fig.y) <= Bins
        /\ \A k \in 1..Len(fig.y) :
               /\ fig.min_price * Unit <= fig.y[k]
               /\ fig.y[k] <= fig.max_price * Unit
        /\ \A k \in 1..(Len(fig.y) - 1) : fig.y[k] < fig.y[k + 1]

(* C8: when all sampled prices are equal the bucket width is 1 and the     *)
(* profile has exactly one bucket, at price + 0.5, holding the sum of all  *)
(* sampled volumes.                                                        *)
C8_EqualPricesOneBucket ==
    (fig.kind = "profile" /\ fig.max_price = fig.min_price) =>
        /\ fig.bin_size = 1 * Unit
        /\ Len(fig.x) = 1
        /\ fig.x[1] = sum(SampleVolumes)
        /\ fig.y = <<fig.min_price * Unit + Unit \div 2>>

\* Three records at one price with volumes 1, 2, 2.
C8_Witness ==
    /\ fig.kind = "profile"
    /\ Len(fig.trades) = 3
    /\ \A i \in 1..3 : fig.trades[i].price = 110
    /\ fig.trades[1].volume = 1
    /\ fig.x = <<5>>

(* C9 as stated: the shares are computed from the last DominanceLimit      *)
(* records of each group, are both 50 when the total volume is zero, and   *)
(* otherwise sum to exactly 100 (30 and 70 for volumes 3 and 7).           *)
DominanceSamples ==
    /\ fig.btc_trades = LastN(GroupLog("BTC", fig.at), DominanceLimit)
    /\ fig.eth_trades = LastN(GroupLog("ETH", fig.at), DominanceLimit)
    /\ fig.btc_volume = sum([i \in 1..Len(fig.btc_trades) |-> fig.btc_trades[i].volume])
    /\ fig.eth_volume = sum([i \in 1..Len(fig.eth_trades) |-> fig.eth_trades[i].volume])

FiftyFiftyWhenZero ==
    fig.btc_volume + fig.eth_volume = 0 =>
        (fig.btc_pct = FromInt(50) /\ fig.eth_pct = FromInt(50))

ThirtySeventy ==
    (fig.btc_volume = 3 /\ fig.eth_volume = 7) =>
        (fig.btc_pct = FromInt(30) /\ fig.eth_pct = FromInt(70))

\* 6/(6+4) and 3/(3+2) are the same share
SixtyForty ==
    (fig.btc_volume = 3 /\ fig.eth_volume = 2) =>
        (fig.btc_pct = FromInt(60) /\ fig.eth_pct = FromInt(40))

C9_SharesSumTo100 ==
    fig.kind = "dominance" =>
        /\ DominanceSamples
        /\ FiftyFiftyWhenZero
        /\ ThirtySeventy
        /\ SixtyForty
        /\ fig.btc_volume + fig.eth_volume # 0 =>
               FAdd(fig.btc_pct, fig.eth_pct) = FromInt(100)

(* C9 as amended: the same, except that with a non-zero total each share   *)
(* is volume / total * 100 only up to floating-point rounding and the two  *)
(* shares sum to 100 only up to rounding: each lies within 2^-44 of its    *)
(* exact value.                                                            *)
Tolerance == [m |-> <<1>>, e |-> 0 - 44]

\* |x - y| <= Tolerance * k
Within(x, y, k) ==
    /\ DLe(x, DAdd(y, DMulInt(Tolerance, k)))
    /\ DLe(y, DAdd(x, DMulInt(Tolerance, k)))

\* |pct - 100 * volume / total| <= Tolerance, cleared of the division
ShareIsPercentage(pct, volume, total) ==
    Within(DMulInt(pct, total), FromInt(100 * volume), total)

C9_SharesWithinRounding ==
    fig.kind = "dominance" =>
        /\ DominanceSamples
        /\ FiftyFiftyWhenZero
        /\ ThirtySeventy
        /\ SixtyForty
        /\ fig.btc_volume + fig.eth_volume # 0 =>
               LET total == fig.btc_volume + fig.eth_volume
               IN /\ ShareIsPercentage(fig.btc_pct, fig.btc_volume, total)
                  /\ ShareIsPercentage(fig.eth_pct, fig.eth_volume, total)
                  /\ Within(FAdd(fig.btc_pct, fig.eth_pct), FromInt(100), 1)

\* BTC volume 6 and ETH volume 3: both shares are rounded and their sum is
\* not 100.
C9_Witness ==
    /\ fig.kind = "dominance"
    /\ fig.eth_volume = 3
    /\ fig.btc_volume = 6
    /\ FAdd(fig.btc_pct, fig.eth_pct) # FromInt(100)


(* C10: _handle_message calls data_handler exactly once, with the message  *)
(* itself, for every decoded message that has no event (or an empty one)   *)
(* and a non-empty data list, and never otherwise: the messages delivered  *)
(* are exactly those messages, in arrival order; a message with an event   *)
(* is printed and not delivered even when it carries data.                 *)
ShouldDeliver(raw) ==
    /\ raw.kind = "object"
    /\ ("event" \in DOMAIN raw.msg => raw.msg.event = "")
    /\ "data" \in DOMAIN raw.msg
    /\ raw.msg.data # <<>>

IsEventMessage(raw) ==
    /\ raw.kind = "object"
    /\ "event" \in DOMAIN raw.msg
    /\ raw.msg.event # ""

IsEventPrint(line) == line \in {"Event", "ERROR"}

C10_DeliveredIffData ==
    LET due == SelectSeq(received, ShouldDeliver)
    IN /\ delivered = [i \in 1..Len(due) |-> due[i].msg]
       /\ Len(SelectSeq(printed, IsEventPrint)) = Len(SelectSeq(received, IsEventMessage))

\* An error event carrying data was printed and not delivered; a message
\* with an empty event and data was delivered.
C10_Witness ==
    /\ Len(received) = 2
    /\ IsEventMessage(received[1])
    /\ received[1].msg.event = "error"
    /\ "data" \in DOMAIN received[1].msg
    /\ ShouldDeliver(received[2])
    /\ "event" \in DOMAIN received[2].msg
    /\ delivered = <<received[2].msg>>
    /\ printed = <<"Connected", "Subscribed", "ERROR">>


(* C11: a raw message that is not valid JSON, or whose handling raises,   *)
(* is logged and skipped and the read loop goes on: the step that takes it *)
(* prints one line, delivers nothing and leaves the connection open, and   *)
(* every deliverable message that arrived after it has been delivered, in  *)
(* arrival order.                                                          *)
IsSkipped(raw) == raw.kind \in {"garbage", "array"}

IsLoopErrorPrint(line) == line \in {"JSON decode error", "Error handling message"}

\* The deliverable messages among received[i+1 ..], in arrival order.
DueAfter(i) ==
    LET rest == SubSeq(received, i + 1, Len(received))
        due == SelectSeq(rest, ShouldDeliver)
    IN [k \in 1..Len(due) |-> due[k].msg]

LaterMessagesDelivered ==
    /\ Len(SelectSeq(printed, IsLoopErrorPrint)) = Len(SelectSeq(received, IsSkipped))
    /\ \A i \in 1..Len(received) :
           IsSkipped(received[i]) => IsSuffix(DueAfter(i), delivered)

SkippedStepKeepsLoop ==
    (Len(received') = Len(received) + 1 /\ IsSkipped(received'[Len(received')])) =>
        /\ ws' = "open"
        /\ delivered' = delivered
        /\ Len(printed') = Len(printed) + 1
        /\ IsLoopErrorPrint(printed'[Len(printed')])

C11_MalformedSkipped == []LaterMessagesDelivered /\ [][SkippedStepKeepsLoop]_vars

\* Text that is not JSON was taken first; the data message after it was
\* delivered on the same, still open, connection.
C11_Witness ==
    /\ Len(received) = 2
    /\ received[1].kind = "garbage"
    /\ ShouldDeliver(received[2])
    /\ delivered = <<received[2].msg>>
    /\ ws = "open"


(* C12: when handle_data gets a message, it calls add_trade exactly for    *)
(* the entries of a 'trades' message that have px, sz, ts and side with    *)
(* numeric px, sz and ts, in message order, whatever other entries stand   *)
(* before or after them; an entry without these is never appended; a       *)
(* message on another channel appends nothing; and no exception reaches    *)
(* the read loop: nothing is printed and the connection stays as it was.   *)
IsWellFormed(trade) ==
    /\ {"px", "sz", "ts", "side"} \subseteq DOMAIN trade
    /\ parse_number(trade.px).ok
    /\ parse_number(trade.sz).ok
    /\ parse_number(trade.ts).ok

\* The entries of the message that are to be appended, in message order.
WellFormedEntries(msg) ==
    IF msg.arg.channel = TRADES THEN SelectSeq(msg.data, IsWellFormed) ELSE <<>>

\* The calls of add_trade made in this step: <<inst_id, trade_data>> each.
NewCalls == SubSeq(calls', Len(calls) + 1, Len(calls'))

\* The records among them that belong to group g.
RECURSIVE NewOf(_, _)
NewOf(g, n) ==
    IF n = 0 THEN <<>>
    ELSE IF ExpectedGroup(NewCalls[n][1]) = g
         THEN Append(NewOf(g, n - 1), NewCalls[n][2])
         ELSE NewOf(g, n - 1)

\* This step handed a message to handle_data.
HandledStep == Len(delivered') = Len(delivered) + 1

EntriesAppended ==
        LET msg == delivered'[Len(delivered')]
            good == WellFormedEntries(msg)
        IN /\ Len(NewCalls) = Len(good)
           /\ add_count' = add_count + Len(good)
           /\ \A k \in 1..Len(good) :
                  /\ NewCalls[k][1] = msg.arg.instId
                  /\ NewCalls[k][2].price = parse_number(good[k].px).value
                  /\ NewCalls[k][2].volume = parse_number(good[k].sz).value
                  /\ NewCalls[k][2].timestamp = parse_number(good[k].ts).value
                  /\ NewCalls[k][2].side = good[k].side
           /\ btc_trades' = LastN(btc_trades \o NewOf("BTC", Len(NewCalls)), Capacity)
           /\ eth_trades' = LastN(eth_trades \o NewOf("ETH", Len(NewCalls)), Capacity)
           /\ printed' = printed
           /\ ws' = ws

C12_BadEntriesDropped == [][HandledStep => EntriesAppended]_vars

\* The same of the steps in which save_raw_data wrote its line.
BadEntriesDroppedWhenArchived ==
    [][(HandledStep /\ archive' # archive) => EntriesAppended]_vars


(* C13: every message received on the connection, event messages and      *)
(* messages with empty data included, is one line of its archive file, in  *)
(* arrival order, and a step only ever appends lines to a file.            *)
IsObject(raw) == raw.kind = "object"

\* The file save_raw_data writes the message to.
FileOf(msg) ==
    <<IF str_in(TRADE, msg.arg.channel) THEN "trades" ELSE "other",
      msg.arg.instId, msg.arg.channel>>

\* The lines of the first n received messages that belong in file f.
RECURSIVE LinesDue(_, _)
LinesDue(f, n) ==
    IF n = 0 THEN <<>>
    ELSE IF IsObject(received[n]) /\ FileOf(received[n].msg) = f
         THEN Append(LinesDue(f, n - 1), [json |-> received[n].msg])
         ELSE LinesDue(f, n - 1)

AppendOnly ==
    \A f \in DOMAIN archive :
        /\ f \in DOMAIN archive'
        /\ Len(archive[f]) <= Len(archive'[f])
        /\ SubSeq(archive'[f], 1, Len(archive[f])) = archive[f]

EveryMessageArchived ==
    \A n \in 1..Len(received) :
        IsObject(received[n]) =>
            LET f == FileOf(received[n].msg)
            IN f \in DOMAIN archive /\ archive[f] = LinesDue(f, Len(received))

C13_EveryMessageArchived == []EveryMessageArchived /\ [][AppendOnly]_vars


(* C17: archiving and buffering are independent: in every step where      *)
(* handle_data gets a 'trades' message, whether or not save_raw_data wrote *)
(* its line, add_trade is called for each well-formed entry, and a failed  *)
(* write prints nothing in the read loop and leaves the connection open.   *)
FailureContained == printed' = printed /\ ws' = ws

TradesBuffered ==
    LET msg == delivered'[Len(delivered')]
    IN msg.arg.channel = TRADES =>
           /\ Len(NewCalls) = Len(WellFormedEntries(msg))
           /\ \A k \in 1..Len(NewCalls) : NewCalls[k][1] = msg.arg.instId

C17_ArchiveIndependent ==
    [][HandledStep => (TradesBuffered /\ FailureContained)]_vars


(* C16: every record in the BTC buffer has an inst_id of its own that      *)
(* names the BTC group, and every record in the ETH buffer one that names  *)
(* the ETH group, also after a message whose entries carry an instId that  *)
(* differs from the message's arg.instId.                                  *)
C16_RecordInOwnGroup ==
    /\ \A i \in 1..Len(btc_trades) : ExpectedGroup(btc_trades[i].inst_id) = "BTC"
    /\ \A i \in 1..Len(eth_trades) : ExpectedGroup(eth_trades[i].inst_id) = "ETH"


(* C15: the collector connects and subscribes at most once; once the read  *)
(* loop has ended (the connection dropped, or connect_and_listen raised),  *)
(* the connection stays closed, no message is taken or delivered, and both *)
(* buffers stay as they are.                                               *)
IsConnectPrint(line) == line = "Connected"
IsSubscribePrint(line) == line = "Subscribed"

ConnectsOnce ==
    /\ Len(SelectSeq(printed, IsConnectPrint)) <= 1
    /\ Len(SelectSeq(printed, IsSubscribePrint)) <= 1

ClosedForGood ==
    ws = "closed" =>
        /\ ws' = "closed"
        /\ received' = received
        /\ delivered' = delivered
        /\ btc_trades' = btc_trades
        /\ eth_trades' = eth_trades

C15_NoReconnect == []ConnectsOnce /\ [][ClosedForGood]_vars

\* The connection was made, gave a trade that was buffered, and has ended
\* with an exception.
C15_Witness ==
    /\ ws = "closed"
    /\ Len(SelectSeq(printed, IsConnectPrint)) = 1
    /\ printed[Len(printed)] = "Collector error"
    /\ Len(delivered) = 1
    /\ Len(btc_trades) = 1


(* C14: a signal makes cleanup_handler clear collector_running and wait    *)
(* for the collector thread in one join with a timeout, after which the    *)
(* process exits whether or not the thread has ended; the thread ends only *)
(* by itself; and over all signals and the atexit hook, stop_collector     *)
(* gets past its guard, and joins, at most once.                           *)
CollectorStarted == proc.collector_thread # None

\* The step in which cleanup_handler runs for the first time.
FirstSignal == ~proc.cleanup_called /\ proc'.cleanup_called

SignalStopsCollector ==
    (FirstSignal /\ CollectorStarted) =>
        /\ proc'.collector_running = FALSE
        /\ proc.collector_thread = "alive" /\ proc.collector_running =>
               (proc'.joins = proc.joins + 1 /\ proc'.main = "handler_join")

LaterSignalsDoNothing ==
    (proc.cleanup_called /\ proc'.signals = proc.signals + 1) =>
        proc' = [proc EXCEPT !.signals = @ + 1]

NeverTerminated ==
    (proc.collector_thread = "alive" /\ proc'.collector_thread # "alive") =>
        (ws = "closed" /\ proc'.collector_thread = "dead")

StoppedAtMostOnce == proc.stops <= 1 /\ proc.joins <= 1

ExitsAfterSignal == proc.cleanup_called ~> proc.main = "exited"

C14_BoundedShutdown ==
    /\ []StoppedAtMostOnce
    /\ [][SignalStopsCollector /\ LaterSignalsDoNothing /\ NeverTerminated]_vars
    /\ ExitsAfterSignal


===========================================================================
